---- MODULE Spec2Model ----
(***************************************************************************)
(* Model of the two analysis scripts of DistrictingAndTDA:                 *)
(*   Notebooks/PA_Functions.py  (benchmark plans, cut-edge comparison)     *)
(*   Notebooks/PA_Updaters.py   (ReCom Markov chain, metric collection)    *)
(* Both scripts are single-threaded and run top to bottom; pc is the       *)
(* position in the running script.  The gerrychain calls the scripts make  *)
(* (Partition, Tally, cut_edges, Election, recursive_tree_part, recom,     *)
(* MarkovChain) are modelled at their call sites.  Floating point values   *)
(* are modelled as exact fractions <<numerator, denominator>>.             *)
(***************************************************************************)
EXTENDS Integers, Sequences, FiniteSets, TLC

VARIABLES
    script,            \* which program runs, and from where
    pc,                \* position in the script
    err,               \* the uncaught exception that ended the run, or "none"
    outputs,           \* the files under ./Outputs/ (name -> content)
    df,                \* the boundary dataset: column name -> (row -> value)
    graph,             \* the adjacency graph: nodes, edges, node attributes
    i,                 \* loop index of the loop being run
    elections,         \* list of Election objects
    updaters,          \* the updaters dict: set of registered names
    printed,           \* the lines printed so far
    named_partitions,  \* PA_Functions: partition_2011 ... partition_8th
    partition_list,    \* PA_Functions: partition_list
    tree_partitions,   \* PA_Functions: the tree-generated partitions
    ys,                \* PA_Functions: plotted values
    labels,            \* PA_Functions: tick labels
    initial_partition, \* PA_Updaters: baseline partition
    chain,             \* PA_Updaters: the MarkovChain object
    part,              \* PA_Updaters: loop variable of "for part in chain"
    yielded,           \* history: the partitions the chain has yielded
    series             \* PA_Updaters: the metric lists, name -> list

benchVars == <<named_partitions, partition_list, tree_partitions, ys, labels>>
chainVars == <<initial_partition, chain, part, yielded, series>>

vars == <<script, pc, err, outputs, df, graph, i, elections, updaters,
          printed, benchVars, chainVars>>

-----------------------------------------------------------------------------
(* Bounds of the model.                                                    *)

\* number of precincts (rows of the boundary dataset, nodes of the graph)
NumNodes == 6
\* number of districts: range(18) of PA_Functions.py:93 and the district
\* identifiers of the plan columns, scaled down
NumDistricts == 2
\* total_steps of the MarkovChain (PA_Updaters.py:117 sets 1000), scaled down
total_steps == 3

(* Program constants.                                                      *)
num_elections_Updaters == 14
num_elections_Functions == 3
tree_plans == 5
n_base_plans == 8
\* epsilon = .01 of recursive_tree_part and 0.02 of recom and of
\* within_percent_of_ideal_population, in percent
tree_epsilon_pct == 1
recom_epsilon_pct == 2
constraint_pct == 2
\* the factor of compactness_bound
compactness_factor == 2

election_names == <<"PRES12", "PRES16", "SENW101216">>
election_columns == << <<"PRES12D", "PRES12R">>,
                       <<"T16PRESD", "T16PRESR">>,
                       <<"W101216D", "W101216R">> >>
unique_label == "GEOID10"
pop_col == "TOT_POP"
county_col == "COUNTYFP10"

\* the plan columns, in the order PA_Functions.py builds the partitions
plan_columns == <<"2011_PLA_1", "GOV", "TS", "REMEDIAL_P", "538CPCT__1",
                  "538DEM_PL", "538GOP_PL", "8THGRADE_1">>

-----------------------------------------------------------------------------
(* Python built-ins the scripts use.                                       *)

RECURSIVE SumOver(_, _)
\* sum(f[x] for x in S)
SumOver(S, f) ==
    IF S = {} THEN 0
    ELSE LET x == CHOOSE y \in S : TRUE IN f[x] + SumOver(S \ {x}, f)

RECURSIVE SumSeq(_)
SumSeq(s) == IF s = <<>> THEN 0 ELSE Head(s) + SumSeq(Tail(s))

\* range(n) as the sequence <<0, ..., n-1>>
Range(n) == [k \in 1..n |-> k - 1]

\* comparison of fractions with positive denominators
FracLeq(a, b) == a[1] * b[2] <= b[1] * a[2]

RECURSIVE InsertInt(_, _)
InsertInt(x, s) ==
    IF s = <<>> THEN <<x>>
    ELSE IF x <= Head(s) THEN <<x>> \o s
    ELSE <<Head(s)>> \o InsertInt(x, Tail(s))

RECURSIVE SortedInts(_)
\* sorted(s) for a list of integers
SortedInts(s) ==
    IF s = <<>> THEN <<>> ELSE InsertInt(Head(s), SortedInts(Tail(s)))

RECURSIVE InsertFrac(_, _)
InsertFrac(x, s) ==
    IF s = <<>> THEN <<x>>
    ELSE IF FracLeq(x, Head(s)) THEN <<x>> \o s
    ELSE <<Head(s)>> \o InsertFrac(x, Tail(s))

RECURSIVE SortedFracs(_)
\* sorted(s) for a list of fractions
SortedFracs(s) ==
    IF s = <<>> THEN <<>> ELSE InsertFrac(Head(s), SortedFracs(Tail(s)))

RECURSIVE SetToSortedSeq(_)
SetToSortedSeq(S) ==
    IF S = {} THEN <<>>
    ELSE LET m == CHOOSE x \in S : \A y \in S : x <= y
         IN <<m>> \o SetToSortedSeq(S \ {m})

\* str(k) for the small k the scripts format
Str(k) == <<"0", "1", "2", "3", "4", "5", "6", "7", "8", "9">>[k + 1]

RECURSIVE GCD(_, _)
GCD(a, b) == IF b = 0 THEN a ELSE GCD(b, a % b)

Abs(x) == IF x < 0 THEN -x ELSE x

\* the fraction n/d (d > 0) in lowest terms: equal floats are equal values
Frac(n, d) ==
    LET g == GCD(Abs(n), d) IN IF g = 0 THEN <<0, 1>> ELSE <<n \div g, d \div g>>

FracSub(a, b) == Frac(a[1] * b[2] - b[1] * a[2], a[2] * b[2])
FracAdd(a, b) == Frac(a[1] * b[2] + b[1] * a[2], a[2] * b[2])

RECURSIVE FracSum(_)
FracSum(s) == IF s = <<>> THEN <<0, 1>> ELSE FracAdd(Head(s), FracSum(Tail(s)))

-----------------------------------------------------------------------------
(* The input files: ./Data/PA_VTDALL.json and ./Data/VTD_FINAL.shp.        *)
(* Precincts are identified by GEOID10; the graph's nodes are keyed by it. *)

Nodes == 1..NumNodes
Rows == 0..(NumNodes - 1)
Districts == 1..NumDistricts

\* two adjacency structures: a triangulated strip, and a graph in which a
\* plan can have more than twice the cut edges of another plan
StripEdges == {e \in Nodes \X Nodes : e[2] - e[1] \in {1, 2}}
HubEdges ==
    ({<<1, 2>>, <<1, 3>>, <<2, 5>>, <<3, 4>>, <<5, 6>>, <<3, 5>>, <<4, 6>>,
      <<4, 5>>, <<3, 6>>} \cap (Nodes \X Nodes))
    \cup {e \in Nodes \X Nodes : e[1] >= 6 /\ e[2] = e[1] + 1}
EdgeChoices == {StripEdges, HubEdges}

PopChoices ==
    { [n \in Nodes |-> 1],
      [n \in Nodes |-> IF n <= 2 THEN 2 ELSE 1],
      [n \in Nodes |-> 1 + (n % 2)] }

CountyChoices ==
    { [n \in Nodes |-> (n + 1) \div 2],
      [n \in Nodes |-> (n + 2) \div 3] }

\* the order of the rows of the boundary dataset: GEOID10 of each row
GeoidChoices ==
    { [r \in Rows |-> r + 1],
      [r \in Rows |-> NumNodes - r] }

VoteColumn(c) ==
    [n \in Nodes |->
        CASE c = "PRES12D"  -> 1 + (n % 3)
          [] c = "PRES12R"  -> 1 + ((n + 1) % 2)
          [] c = "T16PRESD" -> 2 + (n % 2)
          [] c = "T16PRESR" -> 1 + (n % 3)
          [] c = "W101216D" -> n
          [] c = "W101216R" -> NumNodes + 1 - n]

VoteColumns == {"PRES12D", "PRES12R", "T16PRESD", "T16PRESR",
                "W101216D", "W101216R"}
PlanColumns == {plan_columns[k] : k \in DOMAIN plan_columns}

RECURSIVE Reach(_, _, _)
\* the nodes of S reachable from the frontier F inside S along E
Reach(F, S, E) ==
    LET N == {n \in S \ F : \E m \in F : <<m, n>> \in E \/ <<n, m>> \in E}
    IN IF N = {} THEN F ELSE Reach(F \cup N, S, E)

Connected(S, E) ==
    S # {} /\ Reach({CHOOSE n \in S : TRUE}, S, E) = S

\* plans with every district used and contiguous
ContiguousPlans(E) ==
    {a \in [Nodes -> Districts] :
        \A d \in Districts : Connected({n \in Nodes : a[n] = d}, E)}

\* two plans of the benchmark data: blocks of consecutive precincts, and
\* precincts dealt out to the districts in turn
BenchPlans ==
    { [n \in Nodes |-> 1 + (((n - 1) * NumDistricts) \div NumNodes)],
      [n \in Nodes |-> 1 + (n % NumDistricts)] }

\* the input data the scripts are run on: the adjacency, TOT_POP, COUNTYFP10,
\* the row order of the boundary dataset and the enacted plan
ChainDatasets ==
    UNION {
      {[E |-> E, pop |-> pop, county |-> county, geoid |-> geoid, a |-> a] :
          pop \in PopChoices, county \in CountyChoices,
          geoid \in GeoidChoices, a \in ContiguousPlans(E)} :
      E \in EdgeChoices}

BenchDatasets ==
    {[E |-> StripEdges, pop |-> pop,
      county |-> [n \in Nodes |-> (n + 1) \div 2],
      geoid |-> [r \in Rows |-> r + 1], a |-> a] :
        pop \in PopChoices, a \in BenchPlans}

\* the k-th plan column of the data, derived from the enacted plan a
PlanColumn(a, k) ==
    [n \in Nodes |-> a[((n + k - 2) % NumNodes) + 1]]

\* Graph.from_json(graph_path)
GraphFromJson(ds) ==
    [nodes |-> Nodes,
     edges |-> ds.E,
     attr  |-> [c \in {pop_col, county_col} \cup PlanColumns \cup VoteColumns |->
                  CASE c = pop_col -> ds.pop
                    [] c = county_col -> ds.county
                    [] c \in VoteColumns -> VoteColumn(c)
                    [] OTHER ->
                        PlanColumn(ds.a, CHOOSE k \in DOMAIN plan_columns :
                                          plan_columns[k] = c)]]

\* gpd.read_file(plot_path): one row per precinct, same attribute columns
ReadFile(ds) ==
    [c \in {unique_label, pop_col, county_col, "2011_PLA_1"} |->
        [r \in Rows |->
            CASE c = unique_label -> ds.geoid[r]
              [] c = pop_col -> ds.pop[ds.geoid[r]]
              [] c = county_col -> ds.county[ds.geoid[r]]
              [] OTHER -> ds.a[ds.geoid[r]]]]

-----------------------------------------------------------------------------
(* Partition and its updaters.                                             *)

\* variant: the Tally counts the nodes of a part instead of summing TOT_POP
Partition_TallyCountsNodes(g, a) ==
    LET ps == {a[n] : n \in g.nodes}
        parts == [d \in ps |-> {n \in g.nodes : a[n] = d}]
    IN [assignment |-> a,
        parts      |-> parts,
        population |-> [d \in ps |-> Cardinality(parts[d])]]

\* Partition(graph, assignment, updaters): the parts are the level sets of
\* the assignment; the "population" Tally is summed per part
Partition(g, a) ==
    LET ps == {a[n] : n \in g.nodes}
        parts == [d \in ps |-> {n \in g.nodes : a[n] = d}]
    IN [assignment |-> a,
        parts      |-> parts,
        population |-> [d \in ps |-> SumOver(parts[d], g.attr[pop_col])]]

\* Partition(graph, "<column>", updaters)
PartitionFromColumn(g, col) == Partition(g, g.attr[col])

\* variant: a part keeps the nodes that flow out of it
Flip_KeepsOutflow(g, p, flips) ==
    LET moved == {n \in DOMAIN flips : flips[n] # p.assignment[n]}
        out(d) == {n \in moved : p.assignment[n] = d}
        in(d) == {n \in moved : flips[n] = d}
    IN [assignment |-> [n \in g.nodes |->
                          IF n \in DOMAIN flips THEN flips[n]
                          ELSE p.assignment[n]],
        parts      |-> [d \in DOMAIN p.parts |-> p.parts[d] \cup in(d)],
        population |-> [d \in DOMAIN p.parts |->
                          p.population[d]
                          - SumOver(out(d), g.attr[pop_col])
                          + SumOver(in(d), g.attr[pop_col])]]

\* partition.flip(flips): the parts and the Tally are updated from the flows
\* of the parent partition
Flip(g, p, flips) ==
    LET moved == {n \in DOMAIN flips : flips[n] # p.assignment[n]}
        out(d) == {n \in moved : p.assignment[n] = d}
        in(d) == {n \in moved : flips[n] = d}
    IN [assignment |-> [n \in g.nodes |->
                          IF n \in DOMAIN flips THEN flips[n]
                          ELSE p.assignment[n]],
        parts      |-> [d \in DOMAIN p.parts |->
                          (p.parts[d] \ out(d)) \cup in(d)],
        population |-> [d \in DOMAIN p.parts |->
                          p.population[d]
                          - SumOver(out(d), g.attr[pop_col])
                          + SumOver(in(d), g.attr[pop_col])]]

\* len(partition)
LenPartition(p) == Cardinality(DOMAIN p.parts)

\* variant: an edge is cut when its first endpoint has the smaller district
cut_edges_Ordered(g, p) ==
    {e \in g.edges : p.assignment[e[1]] < p.assignment[e[2]]}

\* partition["cut_edges"]: the edges whose endpoints lie in different parts
cut_edges(g, p) ==
    {e \in g.edges : p.assignment[e[1]] # p.assignment[e[2]]}

\* the parts in the order the updaters list them
Regions(p) == SetToSortedSeq(DOMAIN p.parts)

\* partition[election.name].counts(party)
Counts(g, p, col) ==
    [k \in DOMAIN Regions(p) |-> SumOver(p.parts[Regions(p)[k]], g.attr[col])]

\* partition[election.name].percents("Democratic")
Percents(g, p, e) ==
    LET d == Counts(g, p, e.Democratic)
        r == Counts(g, p, e.Republican)
    IN [k \in DOMAIN d |-> Frac(d[k], d[k] + r[k])]

ElectionNamed(name) ==
    LET k == CHOOSE j \in DOMAIN election_names : election_names[j] = name
    IN [name |-> name,
        Democratic |-> election_columns[k][1],
        Republican |-> election_columns[k][2]]

\* numpy.median(data)
Median(data) ==
    LET s == SortedFracs(data)
        n == Len(s)
    IN IF n % 2 = 1 THEN s[(n + 1) \div 2]
       ELSE LET t == FracAdd(s[n \div 2], s[n \div 2 + 1])
            IN Frac(t[1], 2 * t[2])

\* numpy.mean(data)
Mean(data) == LET t == FracSum(data) IN Frac(t[1], Len(data) * t[2])

\* gerrychain.metrics.mean_median(partition[name])
mean_median(g, p, e) ==
    FracSub(Median(Percents(g, p, e)), Mean(Percents(g, p, e)))

\* twice the wasted votes <<party1, party2>> of one part
WastedVotes2(v1, v2) ==
    IF v1 > v2 THEN <<2 * v1 - (v1 + v2), 2 * v2>>
    ELSE <<2 * v1, 2 * v2 - (v1 + v2)>>

\* gerrychain.metrics.efficiency_gap(partition[name])
efficiency_gap(g, p, e) ==
    LET d == Counts(g, p, e.Democratic)
        r == Counts(g, p, e.Republican)
        w == [k \in DOMAIN d |-> WastedVotes2(d[k], r[k])[2]
                                   - WastedVotes2(d[k], r[k])[1]]
    IN Frac(SumSeq(w), 2 * (SumSeq(d) + SumSeq(r)))

\* abs(pop - target) <= epsilon * target, target a fraction, epsilon in percent
WithinEpsilon(pop, target, pct) ==
    100 * Abs(pop * target[2] - target[1]) <= pct * target[1]

\* bipartition_tree on the subgraph M: the node sets one side of a cut of a
\* spanning tree of M can be, with population within epsilon of the target
BalancedCuts(g, M, target, pct) ==
    {S \in SUBSET M :
        /\ S # {} /\ S # M
        /\ Connected(S, g.edges) /\ Connected(M \ S, g.edges)
        /\ WithinEpsilon(SumOver(S, g.attr[pop_col]), target, pct)}

RECURSIVE recursive_tree_part(_, _, _, _, _)
\* recursive_tree_part(graph, parts, pop_target, pop_col, epsilon,
\* node_repeats): every flips dict it can return.  Each part but the last is
\* cut off the remaining nodes by bipartition_tree; the last part takes the
\* nodes that remain.
recursive_tree_part(g, M, parts, target, pct) ==
    IF Len(parts) = 1 THEN {[n \in M |-> parts[1]]}
    ELSE UNION {
           {[n \in M |-> IF n \in S THEN parts[1] ELSE f[n]] :
              f \in recursive_tree_part(g, M \ S, Tail(parts), target, pct)} :
           S \in BalancedCuts(g, M, target, pct)}

-----------------------------------------------------------------------------
(* PA_Updaters.py: the county-split counter.                               *)

\* the value Series.map gives a key the dict does not hold
NaN == -1

\* variant: the join uses the row index in place of GEOID10
MapAssignment_ByIndex(d, p) ==
    [r \in DOMAIN d[unique_label] |->
        IF r \in DOMAIN p.assignment THEN p.assignment[r] ELSE NaN]

\* df[unique_label].map(dict(partition.assignment))
MapAssignment(d, p) ==
    [r \in DOMAIN d[unique_label] |->
        IF d[unique_label][r] \in DOMAIN p.assignment
        THEN p.assignment[d[unique_label][r]]
        ELSE NaN]

\* df["current"] = ...: the column is added to df, or overwritten
SetCurrent(d, p) ==
    [c \in DOMAIN d \cup {"current"} |->
        IF c = "current" THEN MapAssignment(d, p) ELSE d[c]]

\* df.groupby("COUNTYFP10")["current"].nunique(): NaN is not counted
NUnique(d, county) ==
    Cardinality({d["current"][r] :
                   r \in {q \in DOMAIN d["current"] :
                            /\ d[county_col][q] = county
                            /\ d["current"][q] # NaN}})

\* sum(... > 1)
CountSplits(d) ==
    Cardinality({c \in {d[county_col][r] : r \in DOMAIN d[county_col]} :
                   NUnique(d, c) > 1})

\* the value num_splits(partition) returns
num_splits(d, p) == CountSplits(SetCurrent(d, p))

\* variant: the working column is dropped again before the call returns
df_after_num_splits_Dropped(d, p) ==
    [c \in DOMAIN d \ {"current"} |-> d[c]]

\* df once num_splits(partition) has returned: nothing removes the column
df_after_num_splits(d, p) == SetCurrent(d, p)

-----------------------------------------------------------------------------
(* PA_Functions.py: metric functions.                                      *)

cut_edges_metric(g, p) == Cardinality(cut_edges(g, p))

-----------------------------------------------------------------------------
(* The state before a script starts.                                       *)

NoGraph == [nodes |-> {}, edges |-> {}, attr |-> <<>>]
NoPartition == [assignment |-> <<>>, parts |-> <<>>, population |-> <<>>]
NoChain == [state |-> NoPartition, counter |-> 0, pop_target |-> <<0, 1>>,
            ideal |-> <<0, 1>>, bound |-> 0]

SeriesNames == {"splits", "pop_vec", "cut_vec",
                "votesP12", "votesP16", "votesSenW",
                "mmP12", "mmP16", "mmSenW",
                "egP12", "egP16", "egSenW",
                "hmsP12", "hmsP16", "hmsSenW"}

InitStart(name) ==
    /\ script = name
    /\ pc = "start"
    /\ err = "none"
    /\ outputs = <<>>
    /\ df = <<>>
    /\ graph = NoGraph
    /\ i = 0
    /\ elections = <<>>
    /\ updaters = {}
    /\ printed = <<>>
    /\ named_partitions = <<>>
    /\ partition_list = <<>>
    /\ tree_partitions = <<>>
    /\ ys = <<>>
    /\ labels = <<>>
    /\ initial_partition = NoPartition
    /\ chain = NoChain
    /\ part = NoPartition
    /\ yielded = <<>>
    /\ series = [s \in SeriesNames |-> <<>>]

\* the Election objects of lines 69-75 when the list holds the three
\* elections of election_names
ThreeElections ==
    [k \in DOMAIN election_names |-> ElectionNamed(election_names[k])]

\* PA_Updaters.py at line 82, with the three elections registered (the state
\* lines 59-74 of PA_Functions.py reach)
InitAtBaseline ==
    /\ script = "PA_Updaters.py:82"
    /\ pc = "initial_partition"
    /\ err = "none"
    /\ outputs = [f \in {"init.txt"} |-> "Created Folder"]
    /\ \E ds \in ChainDatasets :
          /\ df = ReadFile(ds)
          /\ graph = GraphFromJson(ds)
    /\ i = 0
    /\ elections = ThreeElections
    /\ updaters = {"population", "cut_edges"}
                    \cup {election_names[k] : k \in DOMAIN election_names}
    /\ printed = <<>>
    /\ named_partitions = <<>>
    /\ partition_list = <<>>
    /\ tree_partitions = <<>>
    /\ ys = <<>>
    /\ labels = <<>>
    /\ initial_partition = NoPartition
    /\ chain = NoChain
    /\ part = NoPartition
    /\ yielded = <<>>
    /\ series = [s \in SeriesNames |-> <<>>]

Init ==
    \/ InitStart("PA_Functions.py")
    \/ InitStart("PA_Updaters.py")
    \/ InitAtBaseline

-----------------------------------------------------------------------------
(* The part the two scripts share: lines 22-79 of PA_Updaters.py and       *)
(* lines 23-74 of PA_Functions.py.                                         *)

num_elections ==
    IF script = "PA_Functions.py" THEN num_elections_Functions
    ELSE num_elections_Updaters

\* os.makedirs(...); open(newdir + "init.txt", "w").write("Created Folder")
InitWorkspace ==
    /\ pc = "start"
    /\ outputs' = [f \in {"init.txt"} |-> "Created Folder"]
    /\ pc' = "load"
    /\ UNCHANGED <<script, err, df, graph, i, elections, updaters, printed,
                   benchVars, chainVars>>

\* df = gpd.read_file(plot_path); graph = Graph.from_json(graph_path);
\* updaters = {"population": ..., "cut_edges": cut_edges}
LoadData ==
    /\ pc = "load"
    /\ \E ds \in (IF script = "PA_Functions.py" THEN BenchDatasets
                   ELSE ChainDatasets) :
          /\ df' = ReadFile(ds)
          /\ graph' = GraphFromJson(ds)
    /\ updaters' = {"population", "cut_edges"}
    /\ i' = 0
    /\ elections' = <<>>
    /\ pc' = "elections"
    /\ UNCHANGED <<script, err, outputs, printed, benchVars, chainVars>>

\* what follows the election registry in the running script
AfterElections ==
    IF script = "PA_Functions.py" THEN "partitions" ELSE "initial_partition"

\* one iteration of [Election(election_names[i], ...) for i in
\* range(num_elections)]; after the last one, election_updaters is built and
\* updaters.update(election_updaters) runs.  election_names[i] raises
\* IndexError when i is past the end of the list.
BuildElection ==
    /\ pc = "elections"
    /\ i < num_elections
    /\ IF i >= Len(election_names)
       THEN /\ pc' = "error"
            /\ err' = "IndexError"
            /\ UNCHANGED <<i, elections, updaters>>
       ELSE /\ elections' = Append(elections, ElectionNamed(election_names[i + 1]))
            /\ i' = i + 1
            /\ err' = err
            /\ IF i + 1 = num_elections
               THEN /\ updaters' = updaters \cup
                          {elections'[k].name : k \in DOMAIN elections'}
                    /\ pc' = AfterElections
               ELSE /\ updaters' = updaters
                    /\ pc' = "elections"
    /\ UNCHANGED <<script, outputs, df, graph, printed, benchVars, chainVars>>

-----------------------------------------------------------------------------
(* PA_Functions.py, lines 77-142.                                          *)

partition_names == <<"partition_2011", "partition_GOV", "partition_TS",
                     "partition_REMEDIAL", "partition_CPCT", "partition_DEM",
                     "partition_GOP", "partition_8th">>

\* lines 77-84: partition_<name> = Partition(graph, "<column>", updaters)
BuildNamedPartition ==
    /\ pc = "partitions"
    /\ LET k == Cardinality(DOMAIN named_partitions) + 1 IN
         /\ named_partitions' =
              [v \in DOMAIN named_partitions \cup {partition_names[k]} |->
                 IF v = partition_names[k]
                 THEN PartitionFromColumn(graph, plan_columns[k])
                 ELSE named_partitions[v]]
         /\ IF k = Len(partition_names)
            THEN pc' = "tree" /\ i' = 0
            ELSE pc' = "partitions" /\ i' = i
    /\ UNCHANGED <<script, err, outputs, df, graph, elections, updaters,
                   printed, partition_list, tree_partitions, ys, labels,
                   chainVars>>

\* df["TOT_POP"].sum() / 18
TreeTarget == Frac(SumOver(DOMAIN df[pop_col], df[pop_col]), NumDistricts)

\* lines 91-94: one iteration of the tree plan loop.  When no balanced cut
\* exists recursive_tree_part does not return a plan.
TreePlan ==
    /\ pc = "tree"
    /\ i < tree_plans
    /\ printed' = Append(printed, <<"Finished tree plan", i>>)
    /\ LET plans == recursive_tree_part(graph, graph.nodes, Range(NumDistricts),
                                        TreeTarget, tree_epsilon_pct)
       IN IF plans = {}
          THEN /\ pc' = "error"
               /\ err' = "NoBalancedCut"
               /\ UNCHANGED <<i, tree_partitions>>
          ELSE /\ \E cddict \in plans :
                    tree_partitions' =
                        Append(tree_partitions, Partition(graph, cddict))
               /\ i' = i + 1
               /\ err' = err
               /\ pc' = IF i + 1 = tree_plans THEN "list" ELSE "tree"
    /\ UNCHANGED <<script, outputs, df, graph, elections, updaters,
                   named_partitions, partition_list, ys, labels, chainVars>>

\* variant: the tree plans are put in front of the named plans
BuildList_TreesFirst ==
    /\ pc = "list"
    /\ partition_list' =
         tree_partitions
         \o [k \in DOMAIN partition_names |-> named_partitions[partition_names[k]]]
    /\ pc' = "report"
    /\ UNCHANGED <<script, err, outputs, df, graph, i, elections, updaters,
                   printed, named_partitions, tree_partitions, ys, labels,
                   chainVars>>

\* lines 96-102: partition_list = [partition_2011, ...] + tree_partitions
BuildList ==
    /\ pc = "list"
    /\ partition_list' =
         [k \in DOMAIN partition_names |-> named_partitions[partition_names[k]]]
         \o tree_partitions
    /\ pc' = "report"
    /\ UNCHANGED <<script, err, outputs, df, graph, i, elections, updaters,
                   printed, named_partitions, tree_partitions, ys, labels,
                   chainVars>>

report_names == <<"2011", "GOV", "TS", "REMEDIAL", "538 Compact", "538 DEM",
                  "538 GOP", "8th grade">>

\* lines 117-127: the printed cut-edge report
Report ==
    /\ pc = "report"
    /\ printed' =
         printed
         \o [k \in DOMAIN report_names |->
               <<"The " \o report_names[k] \o " plan has",
                 cut_edges_metric(graph, named_partitions[partition_names[k]])>>]
         \o [k \in 1..tree_plans |->
               <<"Tree plan " \o Str(k) \o " cut edges:",
                 cut_edges_metric(graph, tree_partitions[k])>>]
    /\ pc' = "plot"
    /\ UNCHANGED <<script, err, outputs, df, graph, i, elections, updaters,
                   benchVars, chainVars>>

\* lines 132-142: ys, labels and the plot
Plot ==
    /\ pc = "plot"
    /\ ys' = [k \in DOMAIN partition_list |->
                cut_edges_metric(graph, partition_list[k])]
    /\ labels' = <<"2011", "GOV", "TS", "REMEDIAL", "CPCT", "DEM", "GOP", "8th">>
                 \o [k \in 1..tree_plans |-> "Tree" \o Str((k - 1) + 1)]
    /\ pc' = "done"
    /\ UNCHANGED <<script, err, outputs, df, graph, i, elections, updaters,
                   printed, named_partitions, partition_list, tree_partitions,
                   chainVars>>

-----------------------------------------------------------------------------
(* PA_Updaters.py, lines 82-154.                                           *)

\* line 82: initial_partition = Partition(graph, "2011_PLA_1", updaters)
BuildInitialPartition ==
    /\ pc = "initial_partition"
    /\ initial_partition' = PartitionFromColumn(graph, "2011_PLA_1")
    /\ pc' = "configure"
    /\ UNCHANGED <<script, err, outputs, df, graph, i, elections, updaters,
                   printed, benchVars, chain, part, yielded, series>>

\* sum(initial_partition["population"].values()) / len(initial_partition)
ideal_population(p) ==
    Frac(SumOver(DOMAIN p.population, p.population), LenPartition(p))

\* recom(partition, pop_col, pop_target, epsilon, node_repeats): a cut edge
\* is drawn, the two parts it joins are merged and split again by
\* recursive_tree_part; every partition the call can return
recom(g, p, target, pct) ==
    UNION {
      {Flip(g, p, flips) :
         flips \in recursive_tree_part(
                     g,
                     p.parts[p.assignment[e[1]]] \cup p.parts[p.assignment[e[2]]],
                     <<p.assignment[e[1]], p.assignment[e[2]]>>,
                     target, pct)} :
      e \in cut_edges(g, p)}

\* proposal = partial(recom, pop_col="TOT_POP", pop_target=ideal_population,
\*                    epsilon=0.02, node_repeats=2)
proposal(g, c, p) == recom(g, p, c.pop_target, recom_epsilon_pct)

\* constraints.within_percent_of_ideal_population(initial_partition, 0.02):
\* the bounds are (1 - percent) * ideal and (1 + percent) * ideal, with the
\* ideal taken from initial_partition when the constraint is built
within_percent_of_ideal_population(c, p) ==
    \A d \in DOMAIN p.population :
        /\ (100 - constraint_pct) * c.ideal[1] <= 100 * c.ideal[2] * p.population[d]
        /\ 100 * c.ideal[2] * p.population[d] <= (100 + constraint_pct) * c.ideal[1]

\* variant: the bound is taken from the partition being checked
compactness_bound_Recomputed(g, c, p) ==
    Cardinality(cut_edges(g, p))
        <= compactness_factor * Cardinality(cut_edges(g, p))

\* constraints.UpperBound(lambda p: len(p["cut_edges"]),
\*                        2 * len(initial_partition["cut_edges"]))
compactness_bound(g, c, p) == Cardinality(cut_edges(g, p)) <= c.bound

\* the Validator over the chain's constraints list
is_valid(g, c, p) ==
    /\ within_percent_of_ideal_population(c, p)
    /\ compactness_bound(g, c, p)

\* accept.always_accept
always_accept(p) == TRUE

\* the MarkovChain object of lines 109-118, before its validity check
NewChain(g, p) ==
    [state      |-> p,
     counter    |-> 0,
     pop_target |-> ideal_population(p),
     ideal      |-> ideal_population(p),
     bound      |-> compactness_factor * Cardinality(cut_edges(g, p))]

\* lines 96-136: ideal_population, proposal, compactness_bound, chain and the
\* empty metric lists.  MarkovChain raises ValueError when the initial state
\* does not satisfy the constraints.
Configure ==
    /\ pc = "configure"
    /\ LET c == NewChain(graph, initial_partition) IN
         IF is_valid(graph, c, initial_partition)
         THEN /\ chain' = c
              /\ series' = [s \in SeriesNames |-> <<>>]
              /\ pc' = "loop"
              /\ err' = err
         ELSE /\ pc' = "error"
              /\ err' = "ValueError"
              /\ UNCHANGED <<chain, series>>
    /\ UNCHANGED <<script, outputs, df, graph, i, elections, updaters,
                   printed, benchVars, initial_partition, part, yielded>>

\* line 139, "for part in chain": MarkovChain.__next__.  The first call
\* yields the initial state; a later call proposes until a proposal is
\* valid, moves to it when accepted, and yields the state; after total_steps
\* states the iteration stops.
ChainNext ==
    /\ pc = "loop"
    /\ IF chain.counter = 0
       THEN /\ chain' = [chain EXCEPT !.counter = 1]
            /\ part' = chain.state
            /\ yielded' = Append(yielded, chain.state)
            /\ pc' = "body"
       ELSE IF chain.counter < total_steps
       THEN \E proposed \in proposal(graph, chain, chain.state) :
               /\ is_valid(graph, chain, proposed)
               /\ chain' = [chain EXCEPT
                              !.state = IF always_accept(proposed)
                                        THEN proposed ELSE @,
                              !.counter = @ + 1]
               /\ part' = chain'.state
               /\ yielded' = Append(yielded, chain'.state)
               /\ pc' = "body"
       ELSE /\ pc' = "done"
            /\ UNCHANGED <<chain, part, yielded>>
    /\ UNCHANGED <<script, err, outputs, df, graph, i, elections, updaters,
                   printed, benchVars, initial_partition, series>>

\* the entry each metric list gets for the partition p (lines 140-154);
\* d is df when the loop body starts
Entry(name, d, g, p) ==
    CASE name = "splits"    -> num_splits(d, p)
      [] name = "pop_vec"   ->
            SortedInts([k \in DOMAIN Regions(p) |-> p.population[Regions(p)[k]]])
      [] name = "cut_vec"   -> Cardinality(cut_edges(g, p))
      [] name = "votesP12"  -> SortedFracs(Percents(g, p, ElectionNamed("PRES12")))
      [] name = "votesP16"  -> SortedFracs(Percents(g, p, ElectionNamed("PRES16")))
      [] name = "votesSenW" -> SortedFracs(Percents(g, p, ElectionNamed("SENW101216")))
      [] name = "mmP12"     -> mean_median(g, p, ElectionNamed("PRES12"))
      [] name = "mmP16"     -> mean_median(g, p, ElectionNamed("PRES16"))
      [] name = "mmSenW"    -> mean_median(g, p, ElectionNamed("SENW101216"))
      [] name = "egP12"     -> efficiency_gap(g, p, ElectionNamed("PRES12"))
      [] name = "egP16"     -> efficiency_gap(g, p, ElectionNamed("PRES16"))
      [] name = "egSenW"    -> efficiency_gap(g, p, ElectionNamed("SENW101216"))
      [] name = "hmsP12"    -> Percents(g, p, ElectionNamed("PRES12"))
      [] name = "hmsP16"    -> Percents(g, p, ElectionNamed("PRES16"))
      [] name = "hmsSenW"   -> Percents(g, p, ElectionNamed("SENW101216"))

\* variant: cut_vec records the cut edges of initial_partition
LoopBody_BaselineCut ==
    /\ pc = "body"
    /\ df' = df_after_num_splits(df, part)
    /\ series' = [s \in SeriesNames |->
                    Append(series[s],
                           IF s = "cut_vec"
                           THEN Cardinality(cut_edges(graph, initial_partition))
                           ELSE Entry(s, df, graph, part))]
    /\ pc' = "loop"
    /\ UNCHANGED <<script, err, outputs, graph, i, elections, updaters,
                   printed, benchVars, initial_partition, chain, part, yielded>>

\* lines 140-154: the loop body; num_splits(part) sets df["current"]
LoopBody ==
    /\ pc = "body"
    /\ df' = df_after_num_splits(df, part)
    /\ series' = [s \in SeriesNames |->
                    Append(series[s], Entry(s, df, graph, part))]
    /\ pc' = "loop"
    /\ UNCHANGED <<script, err, outputs, graph, i, elections, updaters,
                   printed, benchVars, initial_partition, chain, part, yielded>>

-----------------------------------------------------------------------------
Next ==
    \/ InitWorkspace
    \/ LoadData
    \/ BuildElection
    \/ BuildNamedPartition
    \/ TreePlan
    \/ BuildList
    \/ Report
    \/ Plot
    \/ BuildInitialPartition
    \/ Configure
    \/ ChainNext
    \/ LoopBody

Spec == Init /\ [][Next]_vars

-----------------------------------------------------------------------------
(* Properties.                                                             *)

Values(f) == {f[x] : x \in DOMAIN f}

\* every partition the running script has constructed so far
ConstructedPartitions ==
    Values(named_partitions) \cup Values(tree_partitions)
    \cup Values(partition_list) \cup Values(yielded)
    \cup ({initial_partition, chain.state, part} \ {NoPartition})

\* the walk has moved away from the baseline partition
WalkMoved ==
    \E k \in DOMAIN yielded : yielded[k].assignment # initial_partition.assignment

Terminated == pc \in {"done", "error"}

\* the MarkovChain of PA_Updaters.py has been constructed
ChainBuilt == script # "PA_Functions.py" /\ pc \in {"loop", "body", "done"}

\* C1: a run of PA_Updaters.py from its first line ends at the end of the
\* collection loop, and every metric list then holds total_steps entries.
C1_RunCompletes ==
    (script = "PA_Updaters.py" /\ Terminated)
        => /\ pc = "done"
           /\ \A s \in SeriesNames : Len(series[s]) = total_steps

\* C2: every partition the walk yields, the baseline included, has every
\* district population within 2% of the baseline's ideal population and at
\* most twice the baseline's cut edges; the chain's bounds are those of the
\* baseline in every state.
C2_ConstraintsHold ==
    LET total == SumOver(graph.nodes, graph.attr[pop_col])
        k == Cardinality(DOMAIN initial_partition.parts)
        base == PartitionFromColumn(graph, "2011_PLA_1")
    IN /\ \A j \in DOMAIN yielded :
            /\ \A d \in DOMAIN yielded[j].population :
                  /\ 98 * total <= 100 * k * yielded[j].population[d]
                  /\ 100 * k * yielded[j].population[d] <= 102 * total
            /\ Cardinality(cut_edges(graph, yielded[j]))
                  <= 2 * Cardinality(cut_edges(graph, base))
       /\ ChainBuilt =>
            /\ chain.bound = 2 * Cardinality(cut_edges(graph, base))
            /\ chain.ideal[1] * k = total * chain.ideal[2]

\* the walk has ended after moving, from a state one of whose proposals the
\* cut-edge bound rejects
C2_Witness ==
    /\ ChainBuilt
    /\ pc = "done"
    /\ Len(yielded) = total_steps
    /\ WalkMoved
    /\ \E q \in proposal(graph, chain, chain.state) :
          ~compactness_bound(graph, chain, q)

\* the metric lists hold the entries of the yielded partitions, in order
SeriesAligned ==
    \A s \in SeriesNames :
       /\ Len(series[s]) = IF pc = "body" THEN Len(yielded) - 1 ELSE Len(yielded)
       /\ \A j \in DOMAIN series[s] :
             series[s][j] = Entry(s, df, graph, yielded[j])

\* a step changes a metric list only by appending to it
SeriesAppendOnly ==
    \A s \in SeriesNames :
       /\ Len(series'[s]) >= Len(series[s])
       /\ SubSeq(series'[s], 1, Len(series[s])) = series[s]

\* C3: the metric lists are append-only, and at every iteration boundary of
\* the collection loop they all have the length k of the partitions yielded
\* so far, entry j of each list being computed from the j-th yielded
\* partition.
C3_AppendOnlyAligned == [](SeriesAligned) /\ [][SeriesAppendOnly]_vars

C3_Witness ==
    /\ pc = "loop"
    /\ Len(series["cut_vec"]) >= 2
    /\ series["cut_vec"][1] # series["cut_vec"][2]
    /\ series["hmsP12"][1] # series["hmsP12"][2]

\* C4: in PA_Updaters.py the mismatch between num_elections and the three
\* election definitions raises no error, and once the election registry is
\* built it holds exactly the three elections.
C4_MismatchSilent ==
    script = "PA_Updaters.py" =>
        /\ err = "none"
        /\ pc \notin {"start", "load", "elections"} =>
              /\ Len(elections) = 3
              /\ {elections[k].name : k \in DOMAIN elections}
                    = {"PRES12", "PRES16", "SENW101216"}

\* C5: in every constructed partition every node of the graph lies in
\* exactly one district, the one its assignment names, and no district is
\* empty; the partitions of the walk have the districts of the baseline.
C5_AssignmentComplete ==
    /\ \A p \in ConstructedPartitions :
          /\ \A n \in graph.nodes :
                /\ Cardinality({d \in DOMAIN p.parts : n \in p.parts[d]}) = 1
                /\ n \in DOMAIN p.assignment
                /\ p.assignment[n] \in DOMAIN p.parts
                /\ n \in p.parts[p.assignment[n]]
          /\ \A d \in DOMAIN p.parts : p.parts[d] # {}
    /\ \A j \in DOMAIN yielded :
          DOMAIN yielded[j].parts = DOMAIN initial_partition.parts

C5_Witness ==
    /\ ChainBuilt
    /\ pc = "done"
    /\ WalkMoved
    /\ Cardinality(Values(yielded)) >= 3

\* C6: in every constructed partition the population tallies of the
\* districts sum to the TOT_POP of all precincts of the graph.
C6_PopulationConserved ==
    \A p \in ConstructedPartitions :
        SumOver(DOMAIN p.population, p.population)
            = SumOver(graph.nodes, graph.attr[pop_col])

C6_Witness ==
    /\ pc = "body"
    /\ part.assignment # initial_partition.assignment
    /\ \E d \in DOMAIN part.population :
          Cardinality(part.parts[d]) # Cardinality(initial_partition.parts[d])

\* the plan column a tick label of the plot names
ColumnOfLabel(l) ==
    CASE l = "2011" -> "2011_PLA_1"
      [] l = "GOV" -> "GOV"
      [] l = "TS" -> "TS"
      [] l = "REMEDIAL" -> "REMEDIAL_P"
      [] l = "CPCT" -> "538CPCT__1"
      [] l = "DEM" -> "538DEM_PL"
      [] l = "GOP" -> "538GOP_PL"
      [] l = "8th" -> "8THGRADE_1"

\* C7: when PA_Functions.py has finished, ys holds 13 natural numbers, the
\* labels are the 8 plan names and Tree1..Tree5 in order, and the k-th value
\* is the number of cut edges of the plan the k-th label names; the report
\* printed one cut-edge line for each of them.
C7_BenchmarkReport ==
    (script = "PA_Functions.py" /\ pc = "done") =>
        /\ Len(ys) = 13
        /\ Len(ys) = n_base_plans + tree_plans
        /\ Len(labels) = Len(ys)
        /\ labels = <<"2011", "GOV", "TS", "REMEDIAL", "CPCT", "DEM", "GOP",
                      "8th", "Tree1", "Tree2", "Tree3", "Tree4", "Tree5">>
        /\ \A k \in DOMAIN ys : ys[k] \in Nat
        /\ \A k \in 1..8 :
              ys[k] = Cardinality(
                        {e \in graph.edges :
                            graph.attr[ColumnOfLabel(labels[k])][e[1]]
                              # graph.attr[ColumnOfLabel(labels[k])][e[2]]})
        /\ \A k \in 1..5 :
              ys[8 + k] = Cardinality(
                        {e \in graph.edges :
                            tree_partitions[k].assignment[e[1]]
                              # tree_partitions[k].assignment[e[2]]})
        /\ Cardinality({j \in DOMAIN printed : printed[j][1] # "Finished tree plan"})
              = 13
        /\ \A k \in 1..13 : printed[tree_plans + k][2] = ys[k]

C7_Witness ==
    /\ script = "PA_Functions.py"
    /\ pc = "done"
    /\ \E j, k \in 1..8 : ys[j] # ys[k]
    /\ \E j, k \in 9..13 : ys[j] # ys[k]

\* the counties of the boundary dataset
Counties == {graph.attr[county_col][n] : n \in graph.nodes}

\* the number of counties whose precincts lie in more than one district
SplitCounties(p) ==
    Cardinality({c \in Counties :
        \E m, n \in graph.nodes :
            /\ graph.attr[county_col][m] = c
            /\ graph.attr[county_col][n] = c
            /\ p.assignment[m] # p.assignment[n]})

\* C8: every recorded num_splits value is the number of counties whose
\* precincts lie in more than one district of the partition it was computed
\* for, lies between 0 and the number of counties, and is 0 when every
\* county lies in one district.
C8_NumSplits ==
    \A j \in DOMAIN series["splits"] :
        /\ series["splits"][j] = SplitCounties(yielded[j])
        /\ series["splits"][j] \in 0..Cardinality(Counties)
        /\ (\A m, n \in graph.nodes :
               graph.attr[county_col][m] = graph.attr[county_col][n]
                  => yielded[j].assignment[m] = yielded[j].assignment[n])
              => series["splits"][j] = 0

C8_Witness ==
    /\ \E j \in DOMAIN series["splits"] : series["splits"][j] = 0
    /\ \E j \in DOMAIN series["splits"] : series["splits"][j] >= 2
    /\ df[unique_label][0] # 1

\* the bijections of the district identifiers 0..NumDistricts
Relabelings ==
    {f \in [0..NumDistricts -> 0..NumDistricts] :
        \A x, y \in 0..NumDistricts : f[x] = f[y] => x = y}

\* the partition p with its districts renamed by f
Relabel(p, f) == Partition(graph, [n \in graph.nodes |-> f[p.assignment[n]]])

\* C9: renaming the districts of a benchmark partition by a bijection leaves
\* cut_edges_metric unchanged.
C9_RelabelInvariant ==
    \A p \in Values(named_partitions) \cup Values(tree_partitions) :
        \A f \in Relabelings :
            cut_edges_metric(graph, Relabel(p, f)) = cut_edges_metric(graph, p)

C9_Witness ==
    /\ script = "PA_Functions.py"
    /\ pc = "done"
    /\ \E k \in DOMAIN ys : ys[k] >= 3

NumSplitsFrame ==
    (pc = "body" /\ pc' = "loop") =>
        /\ graph' = graph
        /\ part' = part /\ chain' = chain /\ yielded' = yielded
        /\ DOMAIN df' = DOMAIN df \cup {"current"}
        /\ \A c \in DOMAIN df : c # "current" => df'[c] = df[c]
        /\ \A r \in Rows : df'["current"][r] = part.assignment[df[unique_label][r]]

\* the column "current", once attached, stays attached
CurrentStays == ("current" \in DOMAIN df) => ("current" \in DOMAIN df')

====
